---- MODULE Spec2Model ----
(***************************************************************************)
(* Model of vcbblueprint.read_blueprint (src/vcbblueprint.py): the decoder *)
(* of a Visual Circuit Board blueprint string.                             *)
(*                                                                         *)
(* Characters are modelled by their code points, bytes by 0..255.  The     *)
(* library calls the decoder makes are modelled by what they do:           *)
(*   base64.b64decode  - CPython's non-strict binascii.a2b_base64          *)
(*   struct.unpack     - big-endian u32, failing on a short buffer         *)
(*   io.BytesIO.read   - short reads at the end, read(n < 0) reads all     *)
(*   zstd.decompress   - Zstandard frames (RFC 8878) with a one-byte       *)
(*                       content size and raw / RLE blocks; anything else  *)
(*                       is rejected, and the inputs stay within what a    *)
(*                       Zstandard decoder accepts or rejects likewise     *)
(*   ndarray.reshape   - fails unless size = height * width * 4; an empty  *)
(*                       buffer reshapes to an empty raster                *)
(*                                                                         *)
(* Exceptions are recorded under the error kinds of the specification:     *)
(*   ValueError (lines 85, 90), binascii.Error, ValueError of the ASCII    *)
(*     check inside b64decode             -> "FormatError"                 *)
(*   struct.error                         -> "TruncatedInputError"         *)
(*   zstd.Error                           -> "DecompressionError"          *)
(*   ValueError (line 57), reshape's ValueError -> "SizeMismatchError"     *)
(***************************************************************************)
EXTENDS Integers, Sequences, FiniteSets, TLC

VARIABLES
    blueprint_string,   \* the argument: a sequence of code points
    pc,                 \* position in read_blueprint
    decoded_string,     \* RawBytes (line 95)
    pos,                \* buf.tell()
    version, checksum, width, height,                     \* line 99
    block_start,        \* the cursor when the current block was started
    block_size, layer_id, buffer_size, compressed_data,   \* lines 49-53
    uncompressed_data,  \* line 54
    layers,             \* line 104
    err,                \* the exception that ended the call, "None" otherwise
    failed_at,          \* history: the position at which it was raised
    result,             \* what the call returned: <<>> or <<[version, layers]>>
    blocks              \* history: the blocks whose layer was inserted, in order

vars == <<blueprint_string, pc, decoded_string, pos, version, checksum, width,
          height, block_start, block_size, layer_id, buffer_size,
          compressed_data, uncompressed_data, layers, err, failed_at, result,
          blocks>>

-----------------------------------------------------------------------------
(* Bounds of the input space *)

MaxBlocks == 2      \* blocks in a generated blueprint
MaxWidth == 2       \* header width ranges over 0..MaxWidth
MaxHeight == 1      \* header height ranges over 0..MaxHeight
MaxCut == 21        \* bytes cut from the end of RawBytes range over 1..MaxCut

(* Program constants *)

MinLength == 40     \* line 84
HeaderSize == 17    \* lines 27-30: 3 + 6 + 4 + 4
HeaderIntSize == 4  \* line 11: buf.read(4)
BlockHeaderSize == 12   \* line 53: block_size - 12

-----------------------------------------------------------------------------
(* Sequence helpers *)

Min(a, b) == IF a < b THEN a ELSE b

Slice(s, from, to) == [i \in 1..(to - from + 1) |-> s[from + i - 1]]

RECURSIVE Concat(_)
Concat(ss) == IF ss = <<>> THEN <<>> ELSE Head(ss) \o Concat(Tail(ss))

Repeat(b, n) == [i \in 1..n |-> b]

\* F(v), with v evaluated once and F applied to its value.
With(v, F(_)) == CHOOSE r \in {F(x) : x \in {v}} : TRUE

-----------------------------------------------------------------------------
(* base64.b64decode(s) with validate=False, line 95 *)

Identifier == <<86, 67, 66, 43>>    \* "VCB+"
PadChar == 61                       \* "="

\* binascii's table_a2b_base64: the 6-bit value of a character, 64 for a
\* character outside the standard alphabet.
B64Value(c) ==
    IF c >= 65 /\ c <= 90 THEN c - 65
    ELSE IF c >= 97 /\ c <= 122 THEN c - 97 + 26
    ELSE IF c >= 48 /\ c <= 57 THEN c - 48 + 52
    ELSE IF c = 43 THEN 62
    ELSE IF c = 47 THEN 63
    ELSE 64

IsData(c) == B64Value(c) < 64

\* binascii.a2b_base64 in non-strict mode.  Its loop over the characters
\* keeps quad_pos (data characters seen, modulo 4) and pads (pad characters
\* seen in a row once quad_pos >= 2); characters that are neither data nor
\* pad are skipped.  It is modelled without the loop:
\*   Kept      the data and pad characters, in order;
\*   StopsAt   "quad_pos >= 2 && quad_pos + ++pads >= 4": a pad at quad_pos 3,
\*             or the second pad in a row at quad_pos 2, ends the decoding
\*             and whatever follows is ignored;
\*   Values    the 6-bit values of the data characters decoded;
\*   the result is an error when the loop ends, without such a pad, on an
\*   incomplete quad.
Kept(s) == SelectSeq(s, LAMBDA c : IsData(c) \/ c = PadChar)

QuadPos(t, i) == Cardinality({j \in 1..(i - 1) : IsData(t[j])}) % 4

StopsAt(t, i) ==
    /\ t[i] = PadChar
    /\ \/ QuadPos(t, i) = 3
       \/ QuadPos(t, i) = 2 /\ i > 1 /\ t[i - 1] = PadChar

\* The bytes of the 6-bit values v: three for each full quad, one for a
\* trailing pair, two for a trailing triple.
BytesOf(v) ==
    LET n == (Len(v) \div 4) * 3
             + (IF Len(v) % 4 = 0 THEN 0 ELSE (Len(v) % 4) - 1)
    IN  [k \in 1..n |->
            LET g == 4 * ((k - 1) \div 3)
            IN  CASE (k - 1) % 3 = 0 -> v[g + 1] * 4 + (v[g + 2] \div 16)
                  [] (k - 1) % 3 = 1 -> (v[g + 2] % 16) * 16 + (v[g + 3] \div 4)
                  [] OTHER -> (v[g + 3] % 4) * 64 + v[g + 4]]

\* The index of the last character decoded: the one before the pad that
\* ends the decoding, the last one when no pad does.
DecodedEnd(t) ==
    LET stops == {i \in 1..Len(t) : StopsAt(t, i)}
    IN  IF stops = {} THEN Len(t)
        ELSE (CHOOSE i \in stops : \A j \in stops : i <= j) - 1

A2BKept(t) ==
    With(DecodedEnd(t), LAMBDA end :
        With(SelectSeq(SubSeq(t, 1, end), IsData), LAMBDA chars :
            IF end < Len(t) \/ Len(chars) % 4 = 0
            THEN [ok |-> TRUE,
                  data |-> With([i \in 1..Len(chars) |-> B64Value(chars[i])],
                                BytesOf)]
            ELSE [ok |-> FALSE, data |-> <<>>]))

A2B(s) == With(Kept(s), A2BKept)

\* base64.b64decode of a str: the string is first encoded as ASCII
\* (ValueError on a character above 127), then handed to a2b_base64.
b64decode(s) ==
    IF \E i \in 1..Len(s) : s[i] > 127
    THEN [ok |-> FALSE, data |-> <<>>]
    ELSE A2B(s)

-----------------------------------------------------------------------------
(* io.BytesIO.read and _readint, lines 8-11 *)

\* buf.read(n): the bytes from the cursor, at most n of them; all that remain
\* when n is negative.  The cursor moves by the number of bytes returned.
\* Mutant: a negative count moves the cursor back.
ReadEndSeek(data, p, n) == IF n < 0 THEN p + n ELSE Min(p + n, Len(data))

ReadEnd(data, p, n) == IF n < 0 THEN Len(data) ELSE Min(p + n, Len(data))

Read(data, p, n) == Slice(data, p + 1, ReadEnd(data, p, n))

\* struct.unpack(">I", b): big-endian unsigned; struct.error unless Len(b) = 4.
UnpackOk(b) == Len(b) = HeaderIntSize

Unpack(b) == b[1] * 16777216 + b[2] * 65536 + b[3] * 256 + b[4]

-----------------------------------------------------------------------------
(* zstd.decompress, line 54 *)

ZstdMagic == <<40, 181, 47, 253>>   \* 0xFD2FB528, little-endian
ZstdFHD == 32       \* Single_Segment_flag set, one-byte Frame_Content_Size
RawBlock == 0
RLEBlock == 1

ZstdFail == [ok |-> FALSE, data |-> <<>>]

\* The blocks of a frame from index i on, out being the content so far.
\* A block header is 3 bytes, little-endian: bit 0 Last_Block, bits 1-2
\* Block_Type, bits 3-23 Block_Size.  The frame is accepted when its last
\* block ends the input and the content has the declared size.
RECURSIVE ZstdBlocks(_, _, _, _)
ZstdBlocks(d, i, fcs, out) ==
    IF i + 2 > Len(d) THEN ZstdFail
    ELSE LET h == d[i] + d[i + 1] * 256 + d[i + 2] * 65536
             last == h % 2
             type == (h \div 2) % 4
             size == h \div 8
             used == IF type = RawBlock THEN size ELSE 1
             body == Slice(d, i + 3, i + 2 + used)
             content == IF type = RawBlock THEN body ELSE Repeat(d[i + 3], size)
         IN  IF type \notin {RawBlock, RLEBlock} \/ i + 2 + used > Len(d)
             THEN ZstdFail
             ELSE IF last = 1
             THEN IF i + 2 + used = Len(d) /\ Len(out) + size = fcs
                  THEN [ok |-> TRUE, data |-> out \o content]
                  ELSE ZstdFail
             ELSE ZstdBlocks(d, i + 3 + used, fcs, out \o content)

ZstdDecompress(d) ==
    IF Len(d) < 6 \/ Slice(d, 1, 4) # ZstdMagic \/ d[5] # ZstdFHD
    THEN ZstdFail
    ELSE ZstdBlocks(d, 7, d[6], <<>>)

-----------------------------------------------------------------------------
(* np.frombuffer(...).reshape((height, width, 4)), lines 108-110 *)

\* Mutant: any whole number of pixels is accepted when a dimension is 0.
ReshapeOkWholePixels(data, h, w) ==
    IF h * w = 0 THEN Len(data) % 4 = 0 ELSE Len(data) = h * w * 4

ReshapeOk(data, h, w) == Len(data) = h * w * 4

Reshape(data, h, w) ==
    [r \in 1..h |-> [c \in 1..w |-> [k \in 1..4 |->
        data[((r - 1) * w + (c - 1)) * 4 + k]]]]

-----------------------------------------------------------------------------
(* The input space: blueprint strings laid out as lines 27-30 and 49-53    *)
(* read them, then damaged in the ways the decoder has to cope with.       *)

EncodeU32(n) ==
    <<n \div 16777216, (n \div 65536) % 256, (n \div 256) % 256, n % 256>>

B64Char(v) ==
    IF v < 26 THEN 65 + v
    ELSE IF v < 52 THEN 97 + (v - 26)
    ELSE IF v < 62 THEN 48 + (v - 52)
    ELSE IF v = 62 THEN 43 ELSE 47

B64Encode(b) ==
    LET at(i) == IF i <= Len(b) THEN b[i] ELSE 0
    IN  [j \in 1..(4 * ((Len(b) + 2) \div 3)) |->
            LET g == 3 * ((j - 1) \div 4)
            IN  CASE (j - 1) % 4 = 0 -> B64Char(at(g + 1) \div 4)
                  [] (j - 1) % 4 = 1 ->
                       B64Char((at(g + 1) % 4) * 16 + at(g + 2) \div 16)
                  [] (j - 1) % 4 = 2 ->
                       IF g + 2 > Len(b) THEN PadChar
                       ELSE B64Char((at(g + 2) % 16) * 4 + at(g + 3) \div 64)
                  [] OTHER ->
                       IF g + 3 > Len(b) THEN PadChar
                       ELSE B64Char(at(g + 3) % 64)]

ZstdBlockHeader(last, type, size) ==
    LET h == last + type * 2 + size * 8
    IN  <<h % 256, (h \div 256) % 256, h \div 65536>>

\* A frame of one block holding content: an RLE block when asked for and
\* the content is not empty, a raw block otherwise.
ZstdFrame(magic, rle, content) ==
    magic \o <<ZstdFHD, Len(content)>> \o
    IF rle /\ Len(content) > 0
    THEN ZstdBlockHeader(1, RLEBlock, Len(content)) \o <<content[1]>>
    ELSE ZstdBlockHeader(1, RawBlock, Len(content)) \o content

LayerIds == {7, 258}

\* How a generated block is built.  "raw" and "rle" are well formed; the
\* others carry one defect each.
BlockKinds ==
    {"raw", "rle",
     "usize",       \* uncompressed_size declares one byte more than the content
     "long",        \* the content is one pixel longer than height * width * 4
     "badmagic",    \* the payload is not a Zstandard frame
     "size0",       \* block_size = 0
     "size11",      \* block_size = 11
     "oversize",    \* block_size declares 3 bytes more than the payload has
     "undersize"}   \* block_size declares 1 byte less than the payload has

BlockDescs == [id : LayerIds, kind : BlockKinds]

\* The content of the i-th block: n bytes that differ from block to block.
Content(i, n, rle) == [j \in 1..n |-> IF rle THEN 16 * i ELSE 16 * i + j]

Block(i, desc, w, h) ==
    LET k == desc.kind
        n == h * w * 4 + (IF k = "long" THEN 4 ELSE 0)
        content == Content(i, n, k = "rle")
        frame == ZstdFrame(IF k = "badmagic" THEN <<40, 181, 47, 0>>
                           ELSE ZstdMagic, k = "rle", content)
        exact == BlockHeaderSize + Len(frame)
        bsize == CASE k = "size0" -> 0
                   [] k = "size11" -> 11
                   [] k = "oversize" -> exact + 3
                   [] k = "undersize" -> exact - 1
                   [] OTHER -> exact
        usize == IF k = "usize" THEN n + 1 ELSE n
    IN  EncodeU32(bsize) \o EncodeU32(desc.id) \o EncodeU32(usize) \o frame

\* RawBytes of a blueprint: version, checksum, width, height, blocks.
Blueprint(w, h, descs) ==
    <<1, 2, 3>> \o <<10, 11, 12, 13, 14, 15>> \o EncodeU32(w) \o EncodeU32(h)
    \o Concat([i \in 1..Len(descs) |-> Block(i, descs[i], w, h)])

Envelope(raw) == Identifier \o B64Encode(raw)

Dims == (0..MaxWidth) \X (0..MaxHeight)

DescSeqs(kinds) ==
    UNION {[1..n -> [id : LayerIds, kind : kinds]] : n \in 0..MaxBlocks}

GoodKinds == {"raw", "rle"}

\* Family A: blueprints with at most one defective block, in a clean
\* envelope.
BlockInputs ==
    {Envelope(Blueprint(d[1], d[2], ds)) :
        d \in Dims,
        ds \in {x \in DescSeqs(BlockKinds) :
                   Cardinality({i \in 1..Len(x) : x[i].kind \notin GoodKinds}) <= 1}}

\* Family B: well-formed blueprints whose RawBytes lost their last bytes.
CutInputs ==
    UNION {LET raw == Blueprint(d[1], d[2], ds)
           IN  {Envelope(SubSeq(raw, 1, Len(raw) - c)) :
                    c \in 1..Min(MaxCut, Len(raw))} :
           d \in Dims, ds \in DescSeqs({"raw"})}

InsertAt(s, p, c) == SubSeq(s, 1, p - 1) \o <<c>> \o SubSeq(s, p, Len(s))

BadIdentifiers == {<<86, 67, 66, 45>>, <<118, 99, 98, 43>>, <<43, 66, 67, 86>>}

\* Characters outside the base64 alphabet: space, "!", line feed, e-acute.
JunkChars == {32, 33, 10, 233}

\* Family C: well-formed blueprints in a damaged envelope.
Damaged(s) ==
    {bad \o SubSeq(s, 5, Len(s)) : bad \in BadIdentifiers}
    \cup {InsertAt(s, p, c) :
            p \in {5, 5 + (Len(s) - 4) \div 2, Len(s) + 1}, c \in JunkChars}
    \cup {SubSeq(s, 1, Len(s) - 1), s \o <<PadChar>>, s \o <<65>>,
          s \o Repeat(32, MinLength - Min(MinLength, Len(s))),
          SubSeq(s, 1, Min(Len(s), MinLength - 1))}

EnvelopeInputs ==
    UNION {Damaged(Envelope(Blueprint(d[1], d[2], ds))) :
           d \in Dims, ds \in DescSeqs({"raw"})}

\* Family D: strings that are no blueprint at all, around the minimum length.
PlainInputs ==
    {pre \o Repeat(c, n) :
        pre \in {Identifier} \cup BadIdentifiers \cup {<<>>},
        c \in {65, 32, PadChar}, n \in {0, 35, 36, 40}}

Inputs == BlockInputs \cup CutInputs \cup EnvelopeInputs \cup PlainInputs

-----------------------------------------------------------------------------
(* read_blueprint, lines 64-114 *)

NoError == "None"

\* Before the call: no argument yet.
Init ==
    /\ blueprint_string = <<>>
    /\ pc = "Idle"
    /\ decoded_string = <<>>
    /\ pos = 0
    /\ version = <<>>
    /\ checksum = <<>>
    /\ width = 0
    /\ height = 0
    /\ block_start = 0
    /\ block_size = 0
    /\ layer_id = 0
    /\ buffer_size = 0
    /\ compressed_data = <<>>
    /\ uncompressed_data = <<>>
    /\ layers = <<>>
    /\ err = NoError
    /\ failed_at = "None"
    /\ result = <<>>
    /\ blocks = <<>>

\* Mutant: the exception is swallowed and the layers read so far returned.
RaiseReturningPartial(kind) ==
    /\ pc' = "Failed"
    /\ err' = kind
    /\ failed_at' = pc
    /\ result' = <<[version |-> version, layers |-> layers]>>

\* raise: the call ends with the exception and returns nothing.
Raise(kind) ==
    /\ pc' = "Failed"
    /\ err' = kind
    /\ failed_at' = pc
    /\ result' = result

\* The statement completes and the call goes on to position p.
Goto(p) ==
    /\ pc' = p
    /\ UNCHANGED <<err, failed_at, result>>

\* Line 64: read_blueprint is called with a string of the input space.
Call ==
    /\ pc = "Idle"
    /\ blueprint_string' \in Inputs
    /\ pc' = "Start"
    /\ UNCHANGED <<decoded_string, pos, version, checksum, width, height,
                   block_start, block_size, layer_id, buffer_size,
                   compressed_data, uncompressed_data, layers, err, failed_at,
                   result, blocks>>

\* Mutant: the length test off by one.
EnvelopeOkOffByOne(s) == Len(s) >= MinLength - 1 /\ SubSeq(s, 1, 4) = Identifier

\* Lines 84-92: the length and identifier checks.
EnvelopeOk(s) == Len(s) >= MinLength /\ SubSeq(s, 1, 4) = Identifier

CheckEnvelope ==
    /\ pc = "Start"
    /\ IF EnvelopeOk(blueprint_string)
       THEN Goto("EnvelopeChecked")
       ELSE Raise("FormatError")
    /\ UNCHANGED <<blueprint_string, decoded_string, pos, version, checksum,
                   width, height, block_start, block_size, layer_id,
                   buffer_size, compressed_data, uncompressed_data, layers,
                   blocks>>

\* Lines 95-96: decoded_string = b64decode(blueprint_string[4:]); buf at 0.
DecodeEnvelope ==
    /\ pc = "EnvelopeChecked"
    /\ \E d \in {b64decode(SubSeq(blueprint_string, 5, Len(blueprint_string)))} :
           IF d.ok
           THEN Goto("EnvelopeDecoded") /\ decoded_string' = d.data
           ELSE Raise("FormatError") /\ decoded_string' = decoded_string
    /\ UNCHANGED <<blueprint_string, pos, version, checksum, width, height,
                   block_start, block_size, layer_id, buffer_size,
                   compressed_data, uncompressed_data, layers, blocks>>

\* Line 99, _read_header (lines 27-32): read(3), read(6), two _readint.
\* The short reads of version and checksum raise nothing; _readint does.
ReadHeader ==
    /\ pc = "EnvelopeDecoded"
    /\ LET d  == decoded_string
           p1 == ReadEnd(d, pos, 3)
           p2 == ReadEnd(d, p1, 6)
           p3 == ReadEnd(d, p2, HeaderIntSize)
           p4 == ReadEnd(d, p3, HeaderIntSize)
           w  == Read(d, p2, HeaderIntSize)
           h  == Read(d, p3, HeaderIntSize)
       IN  IF ~UnpackOk(w)
           THEN /\ Raise("TruncatedInputError")
                /\ pos' = p3
                /\ UNCHANGED <<version, checksum, width, height>>
           ELSE IF ~UnpackOk(h)
           THEN /\ Raise("TruncatedInputError")
                /\ pos' = p4
                /\ UNCHANGED <<version, checksum, width, height>>
           ELSE /\ Goto("HeaderRead")
                /\ pos' = p4
                /\ version' = Read(d, pos, 3)
                /\ checksum' = Read(d, p1, 6)
                /\ width' = Unpack(w)
                /\ height' = Unpack(h)
    /\ UNCHANGED <<blueprint_string, decoded_string, block_start, block_size,
                   layer_id, buffer_size, compressed_data, uncompressed_data,
                   layers, blocks>>

\* Line 105: the loop test.
AtLoop == pc \in {"HeaderRead", "LayerInserted"}

\* Mutant: the loop goes on only while a whole block header remains.
MoreBlocksWholeHeader == pos + BlockHeaderSize <= Len(decoded_string)

MoreBlocks == pos < Len(decoded_string)

\* Line 53: the argument of buf.read.
PayloadSize(bs) == bs - BlockHeaderSize

\* Lines 49-53 of _read_block: three _readint, then buf.read(block_size - 12).
ReadBlock ==
    /\ AtLoop
    /\ MoreBlocks
    /\ LET d  == decoded_string
           p1 == ReadEnd(d, pos, HeaderIntSize)
           p2 == ReadEnd(d, p1, HeaderIntSize)
           p3 == ReadEnd(d, p2, HeaderIntSize)
           b1 == Read(d, pos, HeaderIntSize)
           b2 == Read(d, p1, HeaderIntSize)
           b3 == Read(d, p2, HeaderIntSize)
       IN  /\ block_start' = pos
           /\ IF ~UnpackOk(b1) \/ ~UnpackOk(b2) \/ ~UnpackOk(b3)
              THEN /\ Raise("TruncatedInputError")
                   /\ pos' = IF ~UnpackOk(b1) THEN p1
                             ELSE IF ~UnpackOk(b2) THEN p2 ELSE p3
                   /\ UNCHANGED <<block_size, layer_id, buffer_size,
                                  compressed_data>>
              ELSE /\ Goto("BlockRead")
                   /\ block_size' = Unpack(b1)
                   /\ layer_id' = Unpack(b2)
                   /\ buffer_size' = Unpack(b3)
                   /\ compressed_data' = Read(d, p3, PayloadSize(Unpack(b1)))
                   /\ pos' = ReadEnd(d, p3, PayloadSize(Unpack(b1)))
    /\ UNCHANGED <<blueprint_string, decoded_string, version, checksum, width,
                   height, uncompressed_data, layers, blocks>>

\* Mutant: a payload shorter than declared is accepted.
SizeMatchesAtMost(data, declared) == Len(data) <= declared

\* Line 56: the size test of _read_block.
SizeMatches(data, declared) == Len(data) = declared

\* Lines 54-61 of _read_block: decompress, compare with uncompressed_size.
Decompress ==
    /\ pc = "BlockRead"
    /\ LET z == ZstdDecompress(compressed_data)
       IN  IF ~z.ok
           THEN Raise("DecompressionError") /\ UNCHANGED uncompressed_data
           ELSE IF ~SizeMatches(z.data, buffer_size)
           THEN Raise("SizeMismatchError") /\ UNCHANGED uncompressed_data
           ELSE Goto("BlockDecompressed")
                /\ uncompressed_data' = z.data
    /\ UNCHANGED <<blueprint_string, decoded_string, pos, version, checksum,
                   width, height, block_start, block_size, layer_id,
                   buffer_size, compressed_data, layers, blocks>>

\* Mutant: an id already in the map keeps its first raster.
InsertFirstWins(m, id, rgba) == m @@ (id :> rgba)

\* Line 112: layers[layer_id] = rgba.
Insert(m, id, rgba) == (id :> rgba) @@ m

\* Lines 108-112: reshape to (height, width, 4) and insert.
InsertLayer ==
    /\ pc = "BlockDecompressed"
    /\ IF ~ReshapeOk(uncompressed_data, height, width)
       THEN Raise("SizeMismatchError") /\ UNCHANGED <<layers, blocks>>
       ELSE /\ Goto("LayerInserted")
            /\ layers' = Insert(layers, layer_id,
                                Reshape(uncompressed_data, height, width))
            /\ blocks' = Append(blocks,
                                [start |-> block_start,
                                 block_size |-> block_size,
                                 layer_id |-> layer_id,
                                 payload |-> Len(compressed_data),
                                 data |-> uncompressed_data])
    /\ UNCHANGED <<blueprint_string, decoded_string, pos, version, checksum,
                   width, height, block_start, block_size, layer_id,
                   buffer_size, compressed_data, uncompressed_data>>

\* Line 114: return version, layers.
Return ==
    /\ AtLoop
    /\ ~MoreBlocks
    /\ pc' = "Done"
    /\ result' = <<[version |-> version, layers |-> layers]>>
    /\ UNCHANGED <<blueprint_string, decoded_string, pos, version, checksum,
                   width, height, block_start, block_size, layer_id,
                   buffer_size, compressed_data, uncompressed_data, layers,
                   err, failed_at, blocks>>

Next ==
    \/ Call
    \/ CheckEnvelope
    \/ DecodeEnvelope
    \/ ReadHeader
    \/ ReadBlock
    \/ Decompress
    \/ InsertLayer
    \/ Return

Spec == Init /\ [][Next]_vars

\* The call is synchronous and single-threaded: a step that can be taken is.
FairSpec == Spec /\ WF_vars(Next)

-----------------------------------------------------------------------------
(* Properties *)

Terminal == pc \in {"Done", "Failed"}

Remaining == Len(decoded_string) - pos

\* The last block, in stream order, that carries layer id.
LastWith(id) ==
    CHOOSE i \in 1..Len(blocks) :
        /\ blocks[i].layer_id = id
        /\ \A j \in (i + 1)..Len(blocks) : blocks[j].layer_id # id

\* C1: when the call returns, the layer map has exactly one entry for each
\* layer id that occurs in the block stream, and the entry of an id is the
\* (height, width, 4) raster of the last block carrying that id.
C1_LastBlockWins ==
    pc = "Done" =>
        LET m == result[1].layers
        IN  /\ DOMAIN m = {blocks[i].layer_id : i \in 1..Len(blocks)}
            /\ \A id \in DOMAIN m :
                 LET data == blocks[LastWith(id)].data
                 IN  /\ DOMAIN m[id] = 1..height
                     /\ \A r \in 1..height :
                          /\ DOMAIN m[id][r] = 1..width
                          /\ \A c \in 1..width :
                               m[id][r][c] =
                                 SubSeq(data, ((r - 1) * width + (c - 1)) * 4 + 1,
                                        ((r - 1) * width + (c - 1)) * 4 + 4)

\* C1 witness: a returned map of two blocks with one id and different data.
C1_Witness ==
    /\ pc = "Done"
    /\ Len(blocks) = 2
    /\ blocks[1].layer_id = blocks[2].layer_id
    /\ blocks[1].data # blocks[2].data
    /\ Cardinality(DOMAIN result[1].layers) = 1

\* C2: a block whose payload decompresses to a length other than its
\* declared uncompressed_size fails the call with SizeMismatchError and
\* inserts no layer.
C2_DeclaredSizeMismatch ==
    [][(/\ pc = "BlockRead"
        /\ ZstdDecompress(compressed_data).ok
        /\ Len(ZstdDecompress(compressed_data).data) # buffer_size)
       => (/\ pc' = "Failed"
           /\ err' = "SizeMismatchError"
           /\ layers' = layers
           /\ blocks' = blocks
           /\ result' = <<>>)]_vars

\* C2 witness: the call failed on a block that decompressed to another
\* length than it declared.
C2_Witness ==
    /\ pc = "Failed"
    /\ failed_at = "BlockRead"
    /\ err = "SizeMismatchError"
    /\ ZstdDecompress(compressed_data).ok
    /\ Len(ZstdDecompress(compressed_data).data) # buffer_size

\* C3: a block whose decompressed payload is not exactly width * height * 4
\* bytes long fails the call with SizeMismatchError and adds no layer, also
\* when width or height is 0; every layer inserted was built from exactly
\* width * height * 4 bytes.
C3_RasterSize ==
    /\ \A i \in 1..Len(blocks) : Len(blocks[i].data) = width * height * 4
    /\ LET z == ZstdDecompress(compressed_data)
       IN  (/\ pc \notin {"BlockRead", "BlockDecompressed"}
            /\ z.ok
            /\ Len(z.data) # width * height * 4)
           => /\ pc = "Failed"
              /\ err = "SizeMismatchError"
              /\ \A i \in 1..Len(blocks) : blocks[i].start # block_start

\* C3 witness: with width or height 0, a block of the size it declares but
\* not of 0 bytes failed the call at the reshape.
C3_Witness ==
    /\ pc = "Failed"
    /\ failed_at = "BlockDecompressed"
    /\ err = "SizeMismatchError"
    /\ width * height = 0
    /\ Len(uncompressed_data) > 0

\* C4: when the loop starts a block with 1 to 11 bytes left, the call fails
\* with TruncatedInputError; the cursor stays within RawBytes and the bytes
\* are not taken for a block.
C4_PartialHeader ==
    [][(AtLoop /\ Remaining >= 1 /\ Remaining < 12)
       => (/\ pc' = "Failed"
           /\ err' = "TruncatedInputError"
           /\ pos' <= Len(decoded_string)
           /\ UNCHANGED <<block_size, layer_id, buffer_size, compressed_data,
                          uncompressed_data, layers, blocks>>)]_vars

\* C4 witness: a block was started with 1 to 11 bytes left and the call
\* failed with TruncatedInputError.
C4_Witness ==
    /\ pc = "Failed"
    /\ failed_at \in {"HeaderRead", "LayerInserted"}
    /\ err = "TruncatedInputError"
    /\ block_start >= HeaderSize
    /\ Len(decoded_string) - block_start \in 1..11

\* The block_size field of the block header at the cursor.
DeclaredSize == Unpack(Read(decoded_string, pos, HeaderIntSize))

\* C5 (as claimed): a block header that declares block_size < 12 fails the
\* call with TruncatedInputError, and no byte after the header is taken as
\* the block's payload.
C5_SmallBlockSize ==
    [][(AtLoop /\ Remaining >= 12 /\ DeclaredSize < 12)
       => (/\ pc' = "Failed"
           /\ err' = "TruncatedInputError"
           /\ pos' <= pos + 12
           /\ compressed_data' = compressed_data)]_vars

\* C6 (as claimed): a block that declares block_size >= 12 with fewer than
\* block_size - 12 bytes left after its header fails the call with
\* TruncatedInputError, and no returned map holds a block whose payload was
\* shorter than block_size - 12.
C6_ShortPayload ==
    /\ [][(/\ AtLoop
           /\ Remaining >= 12
           /\ DeclaredSize >= 12
           /\ Remaining - 12 < DeclaredSize - 12)
          => (pc' = "Failed" /\ err' = "TruncatedInputError")]_vars
    /\ [](pc = "Done" =>
            \A i \in 1..Len(blocks) :
                blocks[i].payload >= blocks[i].block_size - 12)

\* Canonical base64 of the standard alphabet: alphabet characters only, in
\* quads, the last quad ending in at most two pad characters.
ValidBase64(s) ==
    /\ Len(s) % 4 = 0
    /\ \A i \in 1..Len(s) :
         \/ IsData(s[i])
         \/ /\ s[i] = PadChar
            /\ i >= Len(s) - 1
            /\ s[Len(s)] = PadChar

Remainder == SubSeq(blueprint_string, 5, Len(blueprint_string))

\* C7 (as claimed): an input of at least 40 characters that starts with
\* "VCB+" and whose remainder is not valid base64 fails with FormatError,
\* and no header or block is read.
C7_InvalidBase64 ==
    (/\ Len(blueprint_string) >= 40
     /\ SubSeq(blueprint_string, 1, 4) = <<86, 67, 66, 43>>
     /\ ~ValidBase64(Remainder)
     /\ pc \notin {"Idle", "Start", "EnvelopeChecked"})
    => (pc = "Failed" /\ err = "FormatError" /\ pos = 0)

\* What lines 84-92 accept: at least 40 characters, the first four "VCB+".
GoodEnvelope ==
    /\ Len(blueprint_string) >= 40
    /\ blueprint_string[1] = 86
    /\ blueprint_string[2] = 67
    /\ blueprint_string[3] = 66
    /\ blueprint_string[4] = 43

\* C8: base64 decoding is reached only for inputs of at least 40 characters
\* that start with "VCB+"; any other input is rejected with FormatError at
\* the start, before anything is decoded or read.
C8_EnvelopeGate ==
    /\ pc \notin {"Idle", "Start", "Failed"} => GoodEnvelope
    /\ (pc = "Failed" /\ failed_at # "Start") => GoodEnvelope
    /\ (~GoodEnvelope /\ pc \notin {"Idle", "Start"})
       => /\ pc = "Failed"
          /\ failed_at = "Start"
          /\ err = "FormatError"
          /\ decoded_string = <<>>
          /\ pos = 0
          /\ result = <<>>

\* C8 witness: a blueprint of more than 40 characters whose identifier is
\* wrong was rejected at the start.
C8_Witness ==
    /\ pc = "Failed"
    /\ failed_at = "Start"
    /\ Len(blueprint_string) > 40
    /\ SubSeq(blueprint_string, 1, 4) # Identifier
    /\ b64decode(Remainder).ok
    /\ Len(b64decode(Remainder).data) > HeaderSize

\* C9: Done is reached only with the cursor at the end of RawBytes; a
\* failure leads to Failed, where nothing is returned, not even the layers
\* of earlier blocks; Done and Failed are terminal.
C9_TerminalStates ==
    /\ [](/\ pc = "Done" =>
              /\ pos = Len(decoded_string)
              /\ err = NoError
              /\ result = <<[version |-> version, layers |-> layers]>>
          /\ pc = "Failed" => (result = <<>> /\ err # NoError)
          /\ pc \notin {"Done", "Failed"} => (result = <<>> /\ err = NoError))
    /\ [][~Terminal]_vars

\* C9 witness: the call failed after a layer had been inserted.
C9_Witness ==
    /\ pc = "Failed"
    /\ Len(blocks) >= 1
    /\ layers # <<>>
    /\ result = <<>>

\* C10: every call ends in Done or Failed; an iteration of the block loop
\* fails or moves the cursor forward by at least the 12 header bytes, and
\* never beyond the end of RawBytes, whatever block_size is declared.
C10_Terminates ==
    /\ <>Terminal
    /\ [](pos <= Len(decoded_string))
    /\ [][(AtLoop /\ MoreBlocks)
          => \/ pc' = "Failed"
             \/ /\ pos' >= pos + 12
                /\ pos' <= Len(decoded_string)]_vars

\* C10 witness: a block declaring block_size < 12 was read without failure.
C10_Witness ==
    /\ pc = "BlockRead"
    /\ block_size < 12
    /\ pos = Len(decoded_string)
    /\ pos >= block_start + 12

====
